---- MODULE Spec2Model ----
(***************************************************************************)
(* Model of the movies HTTP service (cmd/api/main.go): startup (openDB,   *)
(* waitForDB, ListenAndServe), the three registered handlers and the SQL  *)
(* statements they issue against the table movies(id SERIAL, title TEXT). *)
(* Every handler issues at most one auto-committed statement, so a        *)
(* handled request is one atomic step at that statement; concurrent       *)
(* requests are the interleavings of these steps.                         *)
(***************************************************************************)
EXTENDS Integers, Sequences, FiniteSets, TLC

VARIABLES
    pc,       \* position of main: "start", "gate", "sleep", "listen", "serving", "fatal"
    env,      \* the environment variables that are set and non-blank
    dbUp,     \* whether the database currently answers (Ping and statements succeed)
    table,    \* rows of the table movies: a set of [id, title]
    seq,      \* last value handed out by the SERIAL sequence movies_id_seq
    req,      \* the request handled last
    resp,     \* the response written to it
    pinged,   \* history: a db.Ping() has returned nil
    posted,   \* history: <<id, t>> for a POST of title t answered 201 with id, no PUT/DELETE of id since
    deleted   \* history: the ids whose DELETE was answered 204

vars == <<pc, env, dbUp, table, seq, req, resp, pinged, posted, deleted>>

----------------------------------------------------------------------------
(* Bounds *)

\* The sequence hands out at most MaxId identifiers in a checked run.
MaxId == 2

----------------------------------------------------------------------------
(* net/http status codes used by the handlers *)

StatusOK == 200
StatusCreated == 201
StatusNoContent == 204
StatusBadRequest == 400
StatusNotFound == 404
StatusMethodNotAllowed == 405
StatusInternalServerError == 500

----------------------------------------------------------------------------
(* Strings are sequences of one-character strings. *)

\* unicode.IsSpace on the characters used here
IsSpace(c) == c \in {" ", "\t", "\n", "\r", "\f"}

RECURSIVE TrimLeft(_)
TrimLeft(s) ==
    IF s # <<>> /\ IsSpace(Head(s)) THEN TrimLeft(Tail(s)) ELSE s

RECURSIVE TrimRight(_)
TrimRight(s) ==
    IF s # <<>> /\ IsSpace(s[Len(s)]) THEN TrimRight(SubSeq(s, 1, Len(s) - 1)) ELSE s

\* a forgotten trim
TrimSpaceNone(s) == s

\* strings.TrimSpace
TrimSpace(s) == TrimRight(TrimLeft(s))

Digits == <<"0", "1", "2", "3", "4", "5", "6", "7", "8", "9">>

IsDigit(c) == \E d \in 1..Len(Digits) : Digits[d] = c

DigitVal(c) == (CHOOSE d \in 1..Len(Digits) : Digits[d] = c) - 1

RECURSIVE ParseDigits(_, _)
ParseDigits(s, acc) ==
    IF s = <<>> THEN [err |-> FALSE, val |-> acc]
    ELSE IF ~IsDigit(Head(s)) THEN [err |-> TRUE, val |-> 0]
    ELSE ParseDigits(Tail(s), acc * 10 + DigitVal(Head(s)))

\* strconv.ParseInt(s, 10, 64): optional sign, then one or more decimal digits
ParseInt(s) ==
    IF s = <<>> THEN [err |-> TRUE, val |-> 0]
    ELSE LET neg  == Head(s) = "-"
             rest == IF Head(s) \in {"+", "-"} THEN Tail(s) ELSE s
             u    == ParseDigits(rest, 0)
         IN  IF rest = <<>> \/ u.err THEN [err |-> TRUE, val |-> 0]
             ELSE [err |-> FALSE, val |-> IF neg THEN 0 - u.val ELSE u.val]

\* decimal text of a one-digit identifier
FormatId(i) == <<Digits[i + 1]>>

----------------------------------------------------------------------------
(* Requests *)

Methods == {"GET", "POST", "PUT", "DELETE", "PATCH"}

\* JSON bodies: a syntax error, or an object whose "title" member is a string,
\* absent, null or a number, possibly with a member the struct does not have.
TitleTexts ==
    { <<>>, <<" ", " ">>, <<"a">>, <<" ", "a", "\t">>, <<"a", " ", "b">> }

NoBodyIn == [kind |-> "none", ttype |-> "absent", title |-> <<>>, extra |-> FALSE]

Bodies ==
    { [kind |-> "malformed", ttype |-> "absent", title |-> <<>>, extra |-> FALSE] }
    \cup { [kind |-> "object", ttype |-> "string", title |-> t, extra |-> FALSE] : t \in TitleTexts }
    \cup { [kind |-> "object", ttype |-> "string", title |-> <<"a">>, extra |-> TRUE] }
    \cup { [kind |-> "object", ttype |-> y, title |-> <<>>, extra |-> FALSE] : y \in {"absent", "null", "number"} }

\* what follows "/movies/" in the path
Segs ==
    { <<>>, <<"a", "b", "c">>, <<"-", "1">>, <<"0">>, <<"+", "1">> }
    \cup { FormatId(i) : i \in 1..(MaxId + 1) }

Paths ==
    { [route |-> "/health", rest |-> <<>>], [route |-> "/movies", rest |-> <<>>],
      [route |-> "/other", rest |-> <<>>] }
    \cup { [route |-> "/movies/", rest |-> s] : s \in Segs }

\* the body is read by POST /movies, and by PUT /movies/{id} once the
\* identifier has been accepted
ReadsBody(m, p) ==
    \/ m = "POST" /\ p.route = "/movies"
    \/ m = "PUT" /\ p.route = "/movies/" /\ ~ParseInt(p.rest).err /\ ParseInt(p.rest).val > 0

Requests ==
    { r \in [method : Methods, path : Paths, body : Bodies \cup {NoBodyIn}] :
        (r.body # NoBodyIn) <=> ReadsBody(r.method, r.path) }

NoReq == [method |-> "none", path |-> [route |-> "none", rest |-> <<>>], body |-> NoBodyIn]

----------------------------------------------------------------------------
(* Responses *)

JSON == "application/json"

BodyOf(kind, text, id, title, items) ==
    [kind |-> kind, text |-> text, id |-> id, title |-> title, items |-> items]

NoBody == BodyOf("none", "", 0, <<>>, <<>>)
ErrorBody(msg) == BodyOf("error", msg, 0, <<>>, <<>>)
MovieBody(id, title) == BodyOf("movie", "", id, title, <<>>)

\* Movie{ID, Title}
Movie(id, title) == [id |-> id, title |-> title]

\* a Go slice of Movie: the nil slice, or a slice holding items
NilSlice == [nil |-> TRUE, items |-> <<>>]
GoAppend(sl, m) == [nil |-> FALSE, items |-> Append(sl.items, m)]

\* encoding/json of a []Movie: null for the nil slice, an array otherwise
EncodeSlice(sl) ==
    IF sl.nil THEN BodyOf("null", "", 0, <<>>, <<>>)
    ELSE BodyOf("array", "", 0, <<>>, sl.items)

\* writeJSON without the header
WriteJSONNoHeader(code, v) == [code |-> code, ctype |-> "", body |-> v]

\* writeJSON
writeJSON(code, v) == [code |-> code, ctype |-> JSON, body |-> v]

\* w.WriteHeader(code) alone: no header set, nothing written
WriteHeader(code) == [code |-> code, ctype |-> "", body |-> NoBody]

NoResp == [code |-> 0, ctype |-> "", body |-> NoBody]

\* readJSON: Decode with DisallowUnknownFields into struct{Title string}
readJSON(b) ==
    IF b.kind # "object" \/ b.extra \/ b.ttype = "number"
    THEN [err |-> TRUE, Title |-> <<>>]
    ELSE [err |-> FALSE, Title |-> IF b.ttype = "string" THEN b.title ELSE <<>>]

----------------------------------------------------------------------------
(* The table and the SQL statements *)

\* README: INSERT INTO movies (title) SELECT 'Sample Movie' WHERE NOT EXISTS (...)
SeedTitle == <<"S", "a", "m", "p", "l", "e", " ", "M", "o", "v", "i", "e">>

Ids(tbl) == { r.id : r \in tbl }

RECURSIVE OrderById(_)
OrderById(rows) ==
    IF rows = {} THEN <<>>
    ELSE LET m == CHOOSE r \in rows : \A q \in rows : r.id <= q.id
         IN  <<m>> \o OrderById(rows \ {m})

RECURSIVE OrderByIdDesc(_)
OrderByIdDesc(rows) ==
    IF rows = {} THEN <<>>
    ELSE LET m == CHOOSE r \in rows : \A q \in rows : r.id >= q.id
         IN  <<m>> \o OrderByIdDesc(rows \ {m})

\* the query with the order reversed
SelectAllDesc(tbl) == OrderByIdDesc(tbl)

\* SELECT id, title FROM movies ORDER BY id
SelectAll(tbl) == OrderById(tbl)

\* an identifier taken from the rows instead of the sequence
InsertMaxPlusOne(tbl, sq, title) ==
    LET id == IF tbl = {} THEN 1 ELSE (CHOOSE i \in Ids(tbl) : \A j \in Ids(tbl) : i >= j) + 1
    IN  [table |-> tbl \cup {Movie(id, title)}, seq |-> IF id > sq THEN id ELSE sq, id |-> id]

\* INSERT INTO movies (title) VALUES ($1) RETURNING id, id being nextval of the SERIAL sequence
InsertMovie(tbl, sq, title) ==
    [table |-> tbl \cup {Movie(sq + 1, title)}, seq |-> sq + 1, id |-> sq + 1]

\* SELECT id, title FROM movies WHERE id=$1: the matching rows (none: sql.ErrNoRows)
SelectById(tbl, id) == { r \in tbl : r.id = id }

\* the update without its WHERE clause
UpdateEveryRow(tbl, id, title) ==
    [table |-> { Movie(r.id, title) : r \in tbl }, affected |-> Cardinality(tbl)]

\* an update that inserts the row when it is missing
UpsertTitle(tbl, id, title) ==
    [table |-> { r \in tbl : r.id # id } \cup {Movie(id, title)}, affected |-> 1]

\* UPDATE movies SET title=$1 WHERE id=$2, with RowsAffected
UpdateTitle(tbl, id, title) ==
    [table    |-> { IF r.id = id THEN Movie(r.id, title) ELSE r : r \in tbl },
     affected |-> Cardinality({ r \in tbl : r.id = id })]

\* DELETE FROM movies WHERE id=$1, with RowsAffected
DeleteMovie(tbl, id) ==
    [table    |-> { r \in tbl : r.id # id },
     affected |-> Cardinality({ r \in tbl : r.id = id })]

\* err.Error() of a statement the database did not execute
DbError == ErrorBody("db error")

----------------------------------------------------------------------------
(* Handlers: the response and the table and sequence after the request *)

Out(rsp, tbl, sq) == [resp |-> rsp, table |-> tbl, seq |-> sq]

\* for rows.Next() { rows.Scan(&m.ID, &m.Title); out = append(out, m) }
RECURSIVE ScanRows(_, _)
ScanRows(rows, out) ==
    IF rows = <<>> THEN out
    ELSE ScanRows(Tail(rows), GoAppend(out, Movie(Head(rows).id, Head(rows).title)))

\* mux.HandleFunc("/health", ...): no method switch
HealthHandler(r, tbl, sq, up) ==
    Out(writeJSON(StatusOK, BodyOf("status", "ok", 0, <<>>, <<>>)), tbl, sq)

\* case http.MethodGet of /movies
ListMovies(r, tbl, sq, up) ==
    IF ~up THEN Out(writeJSON(StatusInternalServerError, DbError), tbl, sq)
    ELSE Out(writeJSON(StatusOK, EncodeSlice(ScanRows(SelectAll(tbl), NilSlice))), tbl, sq)

\* the insert issued before the title is checked
CreateMovieUnchecked(r, tbl, sq, up) ==
    LET in  == readJSON(r.body)
        ins == InsertMovie(tbl, sq, TrimSpace(in.Title))
    IN  IF in.err
        THEN Out(writeJSON(StatusBadRequest, ErrorBody("invalid json")), tbl, sq)
        ELSE IF ~up
        THEN Out(writeJSON(StatusInternalServerError, DbError), tbl, sq)
        ELSE IF TrimSpace(in.Title) = <<>>
        THEN Out(writeJSON(StatusBadRequest, ErrorBody("title is required")), ins.table, ins.seq)
        ELSE Out(writeJSON(StatusCreated, MovieBody(ins.id, TrimSpace(in.Title))), ins.table, ins.seq)

\* case http.MethodPost of /movies
CreateMovie(r, tbl, sq, up) ==
    LET in    == readJSON(r.body)
        title == TrimSpace(in.Title)
        ins   == InsertMovie(tbl, sq, title)
    IN  IF in.err
        THEN Out(writeJSON(StatusBadRequest, ErrorBody("invalid json")), tbl, sq)
        ELSE IF title = <<>>
        THEN Out(writeJSON(StatusBadRequest, ErrorBody("title is required")), tbl, sq)
        ELSE IF ~up
        THEN Out(writeJSON(StatusInternalServerError, DbError), tbl, sq)
        ELSE Out(writeJSON(StatusCreated, MovieBody(ins.id, title)), ins.table, ins.seq)

\* mux.HandleFunc("/movies", ...)
MoviesHandler(r, tbl, sq, up) ==
    CASE r.method = "GET"  -> ListMovies(r, tbl, sq, up)
      [] r.method = "POST" -> CreateMovie(r, tbl, sq, up)
      [] OTHER             -> Out(WriteHeader(StatusMethodNotAllowed), tbl, sq)

\* case http.MethodGet of /movies/{id}
GetMovie(id, r, tbl, sq, up) ==
    LET found == SelectById(tbl, id)
    IN  IF ~up THEN Out(writeJSON(StatusInternalServerError, DbError), tbl, sq)
        ELSE IF found = {}
        THEN Out(writeJSON(StatusNotFound, ErrorBody("not found")), tbl, sq)
        ELSE LET m == CHOOSE x \in found : TRUE
             IN  Out(writeJSON(StatusOK, MovieBody(m.id, m.title)), tbl, sq)

\* case http.MethodPut of /movies/{id}
PutMovie(id, r, tbl, sq, up) ==
    LET in    == readJSON(r.body)
        title == TrimSpace(in.Title)
        upd   == UpdateTitle(tbl, id, title)
    IN  IF in.err
        THEN Out(writeJSON(StatusBadRequest, ErrorBody("invalid json")), tbl, sq)
        ELSE IF title = <<>>
        THEN Out(writeJSON(StatusBadRequest, ErrorBody("title is required")), tbl, sq)
        ELSE IF ~up
        THEN Out(writeJSON(StatusInternalServerError, DbError), tbl, sq)
        ELSE IF upd.affected = 0
        THEN Out(writeJSON(StatusNotFound, ErrorBody("not found")), upd.table, sq)
        ELSE Out(writeJSON(StatusOK, MovieBody(id, title)), upd.table, sq)

\* case http.MethodDelete of /movies/{id}
DeleteMovieById(id, r, tbl, sq, up) ==
    LET del == DeleteMovie(tbl, id)
    IN  IF ~up THEN Out(writeJSON(StatusInternalServerError, DbError), tbl, sq)
        ELSE IF del.affected = 0
        THEN Out(writeJSON(StatusNotFound, ErrorBody("not found")), del.table, sq)
        ELSE Out(WriteHeader(StatusNoContent), del.table, sq)

\* the method switch entered before the identifier is checked
ItemHandlerMethodFirst(r, tbl, sq, up) ==
    LET p == ParseInt(r.path.rest)
    IN  IF r.method \notin {"GET", "PUT", "DELETE"}
        THEN Out(WriteHeader(StatusMethodNotAllowed), tbl, sq)
        ELSE IF p.err \/ p.val <= 0
        THEN Out(writeJSON(StatusBadRequest, ErrorBody("invalid id")), tbl, sq)
        ELSE CASE r.method = "GET"    -> GetMovie(p.val, r, tbl, sq, up)
               [] r.method = "PUT"    -> PutMovie(p.val, r, tbl, sq, up)
               [] r.method = "DELETE" -> DeleteMovieById(p.val, r, tbl, sq, up)

\* mux.HandleFunc("/movies/", ...): idStr is the path after "/movies/"
ItemHandler(r, tbl, sq, up) ==
    LET idStr == r.path.rest
        p     == ParseInt(idStr)
    IN  IF p.err \/ p.val <= 0
        THEN Out(writeJSON(StatusBadRequest, ErrorBody("invalid id")), tbl, sq)
        ELSE CASE r.method = "GET"    -> GetMovie(p.val, r, tbl, sq, up)
               [] r.method = "PUT"    -> PutMovie(p.val, r, tbl, sq, up)
               [] r.method = "DELETE" -> DeleteMovieById(p.val, r, tbl, sq, up)
               [] OTHER               -> Out(WriteHeader(StatusMethodNotAllowed), tbl, sq)

\* a path no pattern of the ServeMux matches: http.NotFound
NotFoundHandler(r, tbl, sq, up) ==
    Out([code |-> StatusNotFound, ctype |-> "text/plain; charset=utf-8",
         body |-> BodyOf("text", "404 page not found", 0, <<>>, <<>>)], tbl, sq)

----------------------------------------------------------------------------
(* Startup *)

EnvKeys == {"DB_HOST", "DB_PORT", "DB_USER", "DB_PASSWORD", "DB_NAME"}

\* mustEnv(key) returns; otherwise log.Fatalf ends the process
mustEnv(key) == key \in env

Init ==
    /\ pc = "start"
    /\ env \in SUBSET EnvKeys
    /\ dbUp \in BOOLEAN
    /\ table \in { {}, {Movie(1, SeedTitle)} }
    /\ seq = Cardinality(table)
    /\ req = NoReq
    /\ resp = NoResp
    /\ pinged = FALSE
    /\ posted = {}
    /\ deleted = {}

\* db := openDB(): every mustEnv must return, or the process exits
openDB ==
    /\ pc = "start"
    /\ pc' = IF \A k \in EnvKeys : mustEnv(k) THEN "gate" ELSE "fatal"
    /\ UNCHANGED <<env, dbUp, table, seq, req, resp, pinged, posted, deleted>>

\* the loop of waitForDB left whatever db.Ping() returned
waitForDBNoCheck ==
    /\ pc = "gate"
    /\ pc' = "listen"
    /\ pinged' = (pinged \/ dbUp)
    /\ UNCHANGED <<env, dbUp, table, seq, req, resp, posted, deleted>>

\* one turn of the loop of waitForDB: db.Ping(), return on nil, else log
waitForDB ==
    /\ pc = "gate"
    /\ IF dbUp THEN pc' = "listen" /\ pinged' = TRUE
               ELSE pc' = "sleep" /\ pinged' = pinged
    /\ UNCHANGED <<env, dbUp, table, seq, req, resp, posted, deleted>>

\* time.Sleep(1 * time.Second), then the next turn
Sleep ==
    /\ pc = "sleep"
    /\ pc' = "gate"
    /\ UNCHANGED <<env, dbUp, table, seq, req, resp, pinged, posted, deleted>>

\* srv.ListenAndServe() starts serving, or returns an error to log.Fatal
ListenAndServe ==
    /\ pc = "listen"
    /\ pc' \in {"serving", "fatal"}
    /\ UNCHANGED <<env, dbUp, table, seq, req, resp, pinged, posted, deleted>>

\* the database becomes reachable or unreachable
DbChange ==
    /\ pc # "fatal"
    /\ dbUp' = ~dbUp
    /\ UNCHANGED <<pc, env, table, seq, req, resp, pinged, posted, deleted>>

----------------------------------------------------------------------------
(* Serving *)

IsItem(r) == r.path.route = "/movies/"
ItemId(r) == ParseInt(r.path.rest).val
ValidId(r) == ~ParseInt(r.path.rest).err /\ ParseInt(r.path.rest).val > 0

\* the handler h answers request r; the history variables follow the answer
Handle(r, res) ==
    /\ pc = "serving"
    /\ res.seq <= MaxId
    /\ req' = r
    /\ resp' = res.resp
    /\ table' = res.table
    /\ seq' = res.seq
    /\ posted' =
         IF r.path.route = "/movies" /\ r.method = "POST" /\ res.resp.code = StatusCreated
         THEN posted \cup {<<res.resp.body.id, r.body.title>>}
         ELSE IF IsItem(r) /\ r.method \in {"PUT", "DELETE"}
                 /\ res.resp.code \in {StatusOK, StatusNoContent}
         THEN { e \in posted : e[1] # ItemId(r) }
         ELSE posted
    /\ deleted' =
         IF IsItem(r) /\ r.method = "DELETE" /\ res.resp.code = StatusNoContent
         THEN deleted \cup {ItemId(r)}
         ELSE deleted
    /\ UNCHANGED <<pc, env, dbUp, pinged>>

ServeHealth ==
    \E r \in Requests :
        /\ r.path.route = "/health"
        /\ Handle(r, HealthHandler(r, table, seq, dbUp))

ServeMovies ==
    \E r \in Requests :
        /\ r.path.route = "/movies"
        /\ Handle(r, MoviesHandler(r, table, seq, dbUp))

ServeItem ==
    \E r \in Requests :
        /\ r.path.route = "/movies/"
        /\ Handle(r, ItemHandler(r, table, seq, dbUp))

ServeNotFound ==
    \E r \in Requests :
        /\ r.path.route \notin {"/health", "/movies", "/movies/"}
        /\ Handle(r, NotFoundHandler(r, table, seq, dbUp))

Next ==
    \/ openDB
    \/ waitForDB
    \/ Sleep
    \/ ListenAndServe
    \/ DbChange
    \/ ServeHealth
    \/ ServeMovies
    \/ ServeItem
    \/ ServeNotFound

Spec == Init /\ [][Next]_vars

\* time.Sleep returns and db.Ping answers, so the loop of waitForDB keeps turning
FairSpec == Spec /\ WF_vars(Sleep) /\ WF_vars(waitForDB)

----------------------------------------------------------------------------
(* Properties *)

IsGetItem(r) == IsItem(r) /\ r.method = "GET" /\ ValidId(r)

\* a PUT of /movies/{id} that passes the identifier and title checks
IsValidPut(r) ==
    /\ IsItem(r) /\ r.method = "PUT" /\ ValidId(r)
    /\ ~readJSON(r.body).err
    /\ TrimSpace(readJSON(r.body).Title) # <<>>

\* C1 as stated: a GET of an identifier whose POST of title t was answered 201,
\* with no PUT or DELETE of it since, is answered 200 with the very title t
\* that was posted (a query the database does not execute, answered 500, aside).
C1_SameTitleAsPosted ==
    \A e \in posted :
        (IsGetItem(req) /\ ItemId(req) = e[1] /\ resp.code # StatusInternalServerError)
            => (resp.code = StatusOK /\ resp.body.title = e[2])

\* C1 amended: that GET is answered 200 with the posted title t with its leading
\* and trailing white space removed, which is also the title the 201 carried.
C1_TrimmedTitleOfPosted ==
    \A e \in posted :
        (IsGetItem(req) /\ ItemId(req) = e[1] /\ resp.code # StatusInternalServerError)
            => (resp.code = StatusOK /\ resp.body.id = e[1]
                /\ resp.body.title = TrimSpace(e[2]))

\* C1 witness: a padded title was posted and its identifier read back with 200
C1_Witness ==
    \E e \in posted :
        /\ IsGetItem(req) /\ ItemId(req) = e[1] /\ resp.code = StatusOK
        /\ e[2] # TrimSpace(e[2])

\* C2: once DELETE /movies/i has been answered 204, no row has identifier i
\* again, the sequence is past i, and every GET /movies/i whose query the
\* database executes is answered 404 (never 200), whatever was handled between.
C2_DeletedStaysGone ==
    /\ deleted \cap Ids(table) = {}
    /\ \A i \in deleted : i <= seq
    /\ (IsGetItem(req) /\ ItemId(req) \in deleted)
          => resp.code \in {StatusNotFound, StatusInternalServerError}

\* C2 witness: a GET of a deleted identifier answered 404 after a later POST
\* has created another row
C2_Witness ==
    /\ IsGetItem(req) /\ ItemId(req) \in deleted /\ resp.code = StatusNotFound
    /\ \E r \in table : r.id > ItemId(req)

\* C3: a PUT with a valid identifier and title that the database executes is
\* answered 404 and leaves the rows as they were when no row has the
\* identifier; otherwise it is answered 200 and row i has the new title, every
\* other row, the set of identifiers and the sequence being unchanged.
C3_PutStep ==
    (IsValidPut(req') /\ resp'.code # StatusInternalServerError)
        => IF ItemId(req') \notin Ids(table)
           THEN resp'.code = StatusNotFound /\ table' = table /\ seq' = seq
           ELSE /\ resp'.code = StatusOK
                /\ Ids(table') = Ids(table)
                /\ Cardinality(table') = Cardinality(table)
                /\ \A r \in table : r.id # ItemId(req') => r \in table'
                /\ Movie(ItemId(req'), TrimSpace(readJSON(req'.body).Title)) \in table'
                /\ seq' = seq

\* C3: every step of the service satisfies the PUT contract above
C3_PutNotFoundOrUpdates == [][C3_PutStep]_vars

\* C3 witness: a valid PUT of an identifier no row has, answered 404 while
\* other rows exist
C3_Witness ==
    /\ IsValidPut(req) /\ resp.code = StatusNotFound
    /\ table # {} /\ ItemId(req) \notin Ids(table)

\* C4 as stated: GET /movies on an empty table, the query succeeding, is
\* answered 200 with an empty array as its body, not null
C4_EmptyListIsEmptyArray ==
    (req.path.route = "/movies" /\ req.method = "GET" /\ resp.code = StatusOK /\ table = {})
        => (resp.body.kind = "array" /\ resp.body.items = <<>>)

\* the methods each registered pattern lists
Listed(route) ==
    CASE route = "/health"  -> {"GET"}
      [] route = "/movies"  -> {"GET", "POST"}
      [] route = "/movies/" -> {"GET", "PUT", "DELETE"}
      [] OTHER              -> Methods

IsBare405(rsp) == rsp.code = StatusMethodNotAllowed /\ rsp.body = NoBody

\* C5 as stated: on /health, /movies and /movies/{...} every method the path
\* does not list is answered 405 with an empty body, the item paths whose
\* segment is no positive integer included
C5_UnlistedMethodIs405 ==
    (req # NoReq /\ req.method \notin Listed(req.path.route)) => IsBare405(resp)

\* C5 amended: 405 with an empty body answers the unlisted methods of /movies
\* and of the item paths whose segment is a positive integer; an item path
\* whose segment is not a positive integer is answered 400 "invalid id" for
\* every method, and /health is answered 200 for every method.
C5_UnlistedMethodAmended ==
    /\ (req.path.route = "/movies" /\ req.method \notin Listed("/movies"))
          => IsBare405(resp)
    /\ (IsItem(req) /\ ValidId(req) /\ req.method \notin Listed("/movies/"))
          => IsBare405(resp)
    /\ (IsItem(req) /\ ~ValidId(req))
          => (resp.code = StatusBadRequest /\ resp.body = ErrorBody("invalid id"))
    /\ req.path.route = "/health" => resp.code = StatusOK

\* C5 witness: an unlisted method on an item path whose segment is not a
\* positive integer, answered 400
C5_Witness ==
    /\ IsItem(req) /\ ~ValidId(req) /\ req.method \notin Listed("/movies/")
    /\ resp.code = StatusBadRequest

InGate == pc \in {"gate", "sleep"}

\* C6: main is past waitForDB, and a request has been handled, only after a
\* Ping returned nil; the loop of waitForDB is left only by a Ping that
\* succeeds, towards serving, so a failed Ping neither serves nor exits; and
\* after every failed Ping the loop probes again.
C6_GateStep ==
    (InGate /\ ~InGate') => (dbUp /\ pinged' /\ pc' = "listen")

\* C6: the readiness gate, as invariants, a step property and progress of the loop
C6_ReadinessGate ==
    /\ []((pc \in {"listen", "serving"} \/ req # NoReq) => pinged)
    /\ [](req # NoReq => pc = "serving")
    /\ [](InGate => (req = NoReq /\ ~pinged))
    /\ [][C6_GateStep]_vars
    /\ (pc = "sleep") ~> (pc = "gate")
    /\ (pc = "gate") ~> (pc \in {"sleep", "listen"})

\* C6 witness: a probe has failed and the process sleeps in the loop, having
\* served nothing
C6_Witness == pc = "sleep" /\ ~dbUp /\ ~pinged /\ req = NoReq /\ resp = NoResp

Registered(r) == r.path.route \in {"/health", "/movies", "/movies/"}

\* C7 as stated: every response the handlers send, whatever the path, method
\* and status, carries Content-Type: application/json
C7_EveryResponseIsJSON ==
    (Registered(req) /\ resp # NoResp) => resp.ctype = JSON

\* C7 amended: every response of the three handlers that has a body (200, 201,
\* 400, 404, 500) carries Content-Type: application/json; 204 and 405 are
\* written by WriteHeader alone, with no body and no Content-Type.
C7_ResponsesWithBodyAreJSON ==
    Registered(req) =>
        /\ resp.code \in {StatusOK, StatusCreated, StatusBadRequest, StatusNotFound,
                          StatusInternalServerError}
              => (resp.ctype = JSON /\ resp.body # NoBody)
        /\ resp.code \in {StatusNoContent, StatusMethodNotAllowed}
              => (resp.ctype = "" /\ resp.body = NoBody)
        /\ resp.ctype = JSON \/ resp.body = NoBody

\* C7 witness: a 404 of the item handler, written by writeJSON
C7_Witness ==
    IsItem(req) /\ resp.code = StatusNotFound /\ resp.ctype = JSON

\* C8: no stored title is empty or begins or ends with white space (so none is
\* white space only and each equals its own trimmed form)
C8_StoredTitlesTrimmed ==
    \A r \in table :
        /\ r.title # <<>>
        /\ ~IsSpace(r.title[1])
        /\ ~IsSpace(r.title[Len(r.title)])

\* C8 witness: a row created from a title posted with white space around it
C8_Witness ==
    \E e \in posted : e[2] # TrimSpace(e[2]) /\ e[1] \in Ids(table)

\* C9: the rows GET /movies returns with 200 are exactly the rows of the table,
\* each once, in strictly ascending order of identifier
C9_ListAscending ==
    (req.path.route = "/movies" /\ req.method = "GET" /\ resp.code = StatusOK)
        => LET items == resp.body.items
           IN  /\ \A i \in 1..Len(items) : \A j \in 1..Len(items) :
                      i < j => items[i].id < items[j].id
               /\ { items[i] : i \in 1..Len(items) } = table
               /\ Len(items) = Cardinality(table)

\* C9 witness: a list of several rows, one of them updated by a PUT since it
\* was inserted
C9_Witness ==
    /\ req.path.route = "/movies" /\ req.method = "GET" /\ resp.code = StatusOK
    /\ Len(resp.body.items) >= 2
    /\ \E r \in table : r.title # SeedTitle /\ \A e \in posted : e[1] # r.id

\* C10: a request answered 400, 404 or 405, and every GET, leaves the table as
\* it was
C10_Step ==
    (req'.method = "GET"
        \/ resp'.code \in {StatusBadRequest, StatusNotFound, StatusMethodNotAllowed})
        => table' = table

\* C10: every step that answers 400, 404 or 405, or answers a GET, leaves the
\* table unchanged
C10_RejectedLeavesTable == [][C10_Step]_vars

\* C10 witness: a POST of a white-space title answered 400 with rows in the table
C10_Witness ==
    /\ req.path.route = "/movies" /\ req.method = "POST"
    /\ req.body.ttype = "string" /\ req.body.title # <<>> /\ TrimSpace(req.body.title) = <<>>
    /\ resp.code = StatusBadRequest
    /\ table # {}

====
